---------------------------- MODULE Spec2Model ----------------------------
(***************************************************************************)
(* Model of the dynamic loop guard of src/DynamicLoopCheck.h: the          *)
(* process-wide configuration (LoopMonitorConfig), the mutex-guarded       *)
(* one-shot alert (loopWarn, printLoopStackTrace), the two check macros    *)
(* (CHECK_LOOP_DYNAMIC_SIZE, LOOP_DYNAMIC_COUNT_CHECK) expanded at their   *)
(* call sites, and the two reconfiguration calls (setLoopWarnThreshold,    *)
(* resetLoopWarnFlag).  Threads interleave at every access to shared       *)
(* state: the atomics, the mutex and the diagnostic sink (std::cerr).      *)
(***************************************************************************)
EXTENDS Integers, Sequences, FiniteSets, TLC

\* ------------------------------------------------------------------ bounds
\* threads that call into the guard
NumThreads == 2
\* operations (checked loops, threshold stores, resets) started in one run
MaxCalls == 3
\* thresholds range over 0..MaxThreshold (1000000 by default in the code);
\* the bounds N of the pre-loop check over 0..MaxThreshold+1, values of
\* uint64_t, on which the static_cast of line 65 is the identity
MaxThreshold == 1
\* iterations a counted loop asks for: 1..MaxN
MaxN == 2

Threads == 1..NumThreads
\* warnMutex when no thread holds it
NoThread == 0

VARIABLES
    LOOP_WARN_THRESHOLD,    \* std::atomic<uint64_t>
    WARN_ONCE_PER_PROCESS,  \* std::atomic<bool>
    ENABLE_STACK_TRACE,     \* bool
    ENABLE_LOOP_BREAK,      \* bool
    warnMutex,              \* holder of loopWarn's static mutex, or NoThread
    sink,                   \* std::cerr: the lines written so far
    pc,                     \* each thread's position
    op,                     \* LOOP_NAME of the check a thread runs ("none": no check)
    n,                      \* N of the pre-loop check / iterations the counted loop asks for
    iter,                   \* iterations of the guarded loop executed so far
    cnt,                    \* CNT_VAR of the counted loop
    loopSize,               \* loopWarn's loopSize parameter
    thr,                    \* the threshold value the last comparison loaded
    newThreshold,           \* setLoopWarnThreshold's parameter
    calls,                  \* operations started so far (bounds the run)
    resets,                 \* history: resetLoopWarnFlag calls performed
    lastStored,             \* history: <<v>> for the latest threshold store, <<>> if none
    lastEmitEpoch,          \* history: value of resets when the latest emission began
    startEpoch,             \* history: value of resets when a thread's overflowing check loaded
    overlapEpoch,           \* history: <<resets>> at the clear of an emission a thread waited on
    doneSinceArm,           \* history: emissions completed since the latest reset (or the start)
    unlockedFlagWrites,     \* history: writes to the flag by a thread not holding warnMutex
    D_target,               \* main.cpp: CalculateImageTransform's parameters, as rationals
    start_draw_x,
    start_draw_y,
    results                 \* main.cpp: the TransformResult returned, <<>> before the call

vars == <<LOOP_WARN_THRESHOLD, WARN_ONCE_PER_PROCESS, ENABLE_STACK_TRACE,
          ENABLE_LOOP_BREAK, warnMutex, sink, pc, op, n, iter, cnt, loopSize,
          thr, newThreshold, calls, resets, lastStored, lastEmitEpoch,
          startEpoch, overlapEpoch, doneSinceArm, unlockedFlagWrites,
          D_target, start_draw_x, start_draw_y, results>>

config == <<ENABLE_STACK_TRACE, ENABLE_LOOP_BREAK>>
locals == <<op, n, iter, cnt, loopSize, thr, newThreshold>>
history == <<resets, lastStored, lastEmitEpoch, startEpoch, overlapEpoch, doneSinceArm,
             unlockedFlagWrites>>
\* the variables of main.cpp's geometry calculation
geometry == <<D_target, start_draw_x, start_draw_y, results>>
\* the variables of the loop guard
guard == <<LOOP_WARN_THRESHOLD, WARN_ONCE_PER_PROCESS, config, warnMutex, sink, pc,
           locals, calls, history>>

\* ------------------------------------------------------------ sink lines
Line(kind, t, a, b) == <<kind, t, a, b>>
Kind(l) == l[1]
By(l) == l[2]

\* positions inside loopWarn's emission (between the flag test and the clear)
EmitPcs == {"lw_count", "lw_stack", "lw_clear"}

\* ----------------------------------------------------------- code helpers
\* a comparison that also fires at the threshold itself
OverflowsAtThreshold(size, threshold) == size >= threshold

\* the strict comparison of both macros
Overflows(size, threshold) == size > threshold

\* a counted loop that keeps the threshold its first check loaded
ThresholdLoadHoisted(t) ==
    IF op[t] = "count" /\ cnt[t] > 0 THEN thr[t] ELSE LOOP_WARN_THRESHOLD

\* LOOP_WARN_THRESHOLD.load() as a check of thread t evaluates it
ThresholdLoad(t) == LOOP_WARN_THRESHOLD

\* loopWarn entered without waiting for the mutex
MutexFreeNoLock == TRUE

\* std::lock_guard<std::mutex> lock(warnMutex) can be taken
MutexFree == warnMutex = NoThread

\* an emission that leaves the flag armed
FlagAfterEmitStaysArmed == TRUE

\* the value line 54 writes to the flag after an emission
FlagAfterEmit == FALSE

\* a macro that leaves the guarded loop whenever it found overflow
MacroExitLeavesLoop(loop, overflow, brk) ==
    IF overflow THEN "ret" ELSE IF loop = "size" THEN "size_loop" ELSE "count_loop"

\* Where control continues when a macro's do { } while(0) is left.  The
\* `break` of lines 70 and 86 leaves only that do-while, so the place is the
\* same whether or not overflow was found and whether or not the break ran:
\* the statement after the macro.
MacroExit(loop, overflow, brk) ==
    IF loop = "size" THEN "size_loop" ELSE "count_loop"

\* The caller's code from the place `at` the macro leaves it at, for a loop
\* asking for `total` iterations of which `done` have run: after the pre-loop
\* check the guarded loop runs all its iterations; in the counted loop the
\* current iteration ends, and the loop with the last one.  "ret": the
\* guarded loop is over.
AfterMacro(at, total, done) ==
    CASE at = "size_loop" -> [pc |-> "ret", iter |-> total]
      [] at = "count_loop" ->
            [pc |-> IF done + 1 = total THEN "ret" ELSE "count_loop",
             iter |-> done + 1]
      [] OTHER -> [pc |-> "ret", iter |-> done]

\* a loopWarn that emits whatever the flag says
ShouldEmitAlways == TRUE

\* line 45: loopWarn emits only while the flag is set
ShouldEmit == WARN_ONCE_PER_PROCESS

\* a printLoopStackTrace without its early return
StackTraceNeverSkipped == FALSE

\* line 25: printLoopStackTrace returns at once, before any capture
StackTraceSkipped == ~ENABLE_STACK_TRACE

\* a loopWarn that a failed capture makes return before the clear
AfterStackTraceFailureReturns(outcome) ==
    IF outcome = "null" THEN "brk" ELSE "lw_clear"

\* where loopWarn continues when printLoopStackTrace returns, by line 30's
\* early return or at its end: line 54, whatever the capture gave
AfterStackTrace(outcome) == "lw_clear"

\* a loopWarn that returns with the mutex still locked
MutexAfterReturnKept == warnMutex

\* line 56: the lock_guard goes out of scope and unlocks the mutex
MutexAfterReturn == NoThread

\* 1 when thread t writes the flag without holding the mutex, else 0
UnlockedWrite(t) == IF warnMutex = t THEN 0 ELSE 1

\* what backtrace / backtrace_symbols can hand back: no symbol array, an
\* array of zero frames, an array of some frames
StackOutcomes == {"null", "empty", "frames"}

Init ==
    /\ LOOP_WARN_THRESHOLD \in 0..MaxThreshold
    /\ WARN_ONCE_PER_PROCESS = TRUE
    /\ ENABLE_STACK_TRACE \in BOOLEAN
    /\ ENABLE_LOOP_BREAK \in BOOLEAN
    /\ warnMutex = NoThread
    /\ sink = <<>>
    /\ pc = [t \in Threads |-> "idle"]
    /\ op = [t \in Threads |-> "none"]
    /\ n = [t \in Threads |-> 0]
    /\ iter = [t \in Threads |-> 0]
    /\ cnt = [t \in Threads |-> 0]
    /\ loopSize = [t \in Threads |-> 0]
    /\ thr = [t \in Threads |-> 0]
    /\ newThreshold = [t \in Threads |-> 0]
    /\ calls = 0
    /\ resets = 0
    /\ lastStored = <<>>
    /\ lastEmitEpoch = 0
    /\ startEpoch = [t \in Threads |-> 0]
    /\ overlapEpoch = [t \in Threads |-> <<>>]
    /\ doneSinceArm = 0
    /\ unlockedFlagWrites = 0
    /\ D_target = <<0, 1>>
    /\ start_draw_x = <<0, 1>>
    /\ start_draw_y = <<0, 1>>
    /\ results = <<>>

\* CHECK_LOOP_DYNAMIC_SIZE(N, "size"), lines 65-66: loopSize, the load and the
\* comparison; without overflow the macro is left and the guarded loop runs
SizeCheck(t, N) ==
    /\ pc[t] = "idle"
    /\ calls < MaxCalls
    /\ calls' = calls + 1
    /\ op' = [op EXCEPT ![t] = "size"]
    /\ n' = [n EXCEPT ![t] = N]
    /\ loopSize' = [loopSize EXCEPT ![t] = N]
    /\ thr' = [thr EXCEPT ![t] = ThresholdLoad(t)]
    /\ IF Overflows(N, thr'[t])
       THEN /\ pc' = [pc EXCEPT ![t] = "lw_enter"]
            /\ startEpoch' = [startEpoch EXCEPT ![t] = resets]
            /\ UNCHANGED iter
       ELSE /\ LET after == AfterMacro(MacroExit("size", FALSE, FALSE), N, 0)
               IN /\ pc' = [pc EXCEPT ![t] = after.pc]
                  /\ iter' = [iter EXCEPT ![t] = after.iter]
            /\ UNCHANGED startEpoch
    /\ UNCHANGED <<LOOP_WARN_THRESHOLD, WARN_ONCE_PER_PROCESS, config, warnMutex,
                   sink, cnt, newThreshold, resets, lastStored, lastEmitEpoch,
                   overlapEpoch, doneSinceArm>>
    /\ UNCHANGED <<unlockedFlagWrites, geometry>>

\* a loop of K iterations that runs LOOP_DYNAMIC_COUNT_CHECK(cnt, "count")
\* in each, its counter starting at 0
CountStart(t, K) ==
    /\ pc[t] = "idle"
    /\ calls < MaxCalls
    /\ calls' = calls + 1
    /\ op' = [op EXCEPT ![t] = "count"]
    /\ n' = [n EXCEPT ![t] = K]
    /\ pc' = [pc EXCEPT ![t] = "count_loop"]
    /\ UNCHANGED <<LOOP_WARN_THRESHOLD, WARN_ONCE_PER_PROCESS, config, warnMutex,
                   sink, iter, cnt, loopSize, thr, newThreshold, history>>
    /\ UNCHANGED geometry

\* LOOP_DYNAMIC_COUNT_CHECK, line 82: the increment, the load, the comparison
CountCheck(t) ==
    /\ pc[t] = "count_loop"
    /\ cnt' = [cnt EXCEPT ![t] = cnt[t] + 1]
    /\ thr' = [thr EXCEPT ![t] = ThresholdLoad(t)]
    /\ IF Overflows(cnt'[t], thr'[t])
       THEN /\ loopSize' = [loopSize EXCEPT ![t] = cnt'[t]]
            /\ pc' = [pc EXCEPT ![t] = "lw_enter"]
            /\ startEpoch' = [startEpoch EXCEPT ![t] = resets]
            /\ UNCHANGED iter
       ELSE /\ LET after == AfterMacro(MacroExit("count", FALSE, FALSE), n[t], iter[t])
               IN /\ pc' = [pc EXCEPT ![t] = after.pc]
                  /\ iter' = [iter EXCEPT ![t] = after.iter]
            /\ UNCHANGED <<loopSize, startEpoch>>
    /\ UNCHANGED <<LOOP_WARN_THRESHOLD, WARN_ONCE_PER_PROCESS, config, warnMutex,
                   sink, op, n, newThreshold, calls, resets, lastStored,
                   lastEmitEpoch, overlapEpoch, doneSinceArm>>
    /\ UNCHANGED <<unlockedFlagWrites, geometry>>

\* loopWarn, lines 43-49: take the mutex and test the flag.  Armed: write the
\* header and the loop name, and go on emitting with the mutex held.  Not
\* armed: release the mutex and return.
LoopWarnEnter(t) ==
    /\ pc[t] = "lw_enter"
    /\ MutexFree
    /\ IF ShouldEmit
       THEN /\ warnMutex' = t
            /\ sink' = sink \o <<Line("WARN", t, 0, 0), Line("NAME", t, 0, 0)>>
            /\ pc' = [pc EXCEPT ![t] = "lw_count"]
            /\ lastEmitEpoch' = resets
       ELSE /\ pc' = [pc EXCEPT ![t] = "brk"]
            /\ UNCHANGED <<warnMutex, sink, lastEmitEpoch>>
    /\ UNCHANGED <<LOOP_WARN_THRESHOLD, WARN_ONCE_PER_PROCESS, config, locals,
                   calls, resets, lastStored, startEpoch, overlapEpoch,
                   doneSinceArm>>
    /\ UNCHANGED <<unlockedFlagWrites, geometry>>

\* loopWarn, lines 50-51: "DynamicCount: loopSize | Threshold: <a fresh load>"
LoopWarnCount(t) ==
    /\ pc[t] = "lw_count"
    /\ sink' = Append(sink, Line("COUNT", t, loopSize[t], LOOP_WARN_THRESHOLD))
    /\ pc' = [pc EXCEPT ![t] = "lw_stack"]
    /\ UNCHANGED <<LOOP_WARN_THRESHOLD, WARN_ONCE_PER_PROCESS, config, warnMutex,
                   locals, calls, history>>
    /\ UNCHANGED geometry

\* printLoopStackTrace (line 53): nothing when disabled (no capture) or when
\* no symbol array comes back, else the stack section
PrintLoopStackTrace(t, outcome) ==
    /\ pc[t] = "lw_stack"
    /\ IF StackTraceSkipped
       THEN /\ outcome = "null"
            /\ sink' = sink
       ELSE IF outcome = "null"
            THEN sink' = sink
            ELSE sink' = Append(sink, Line("STACK", t, IF outcome = "empty" THEN 0 ELSE 1, 0))
    /\ pc' = [pc EXCEPT ![t] = AfterStackTrace(outcome)]
    /\ UNCHANGED <<LOOP_WARN_THRESHOLD, WARN_ONCE_PER_PROCESS, config, warnMutex,
                   locals, calls, history>>
    /\ UNCHANGED geometry

\* loopWarn, lines 54-56: clear the flag, release the mutex, return
LoopWarnClear(t) ==
    /\ pc[t] = "lw_clear"
    /\ WARN_ONCE_PER_PROCESS' = FlagAfterEmit
    /\ unlockedFlagWrites' = unlockedFlagWrites + UnlockedWrite(t)
    /\ warnMutex' = MutexAfterReturn
    /\ pc' = [pc EXCEPT ![t] = "brk"]
    /\ overlapEpoch' = [u \in Threads |->
            IF u # t /\ pc[u] = "lw_enter" THEN <<resets>> ELSE overlapEpoch[u]]
    /\ doneSinceArm' = doneSinceArm + 1
    /\ UNCHANGED <<LOOP_WARN_THRESHOLD, config, sink, locals, calls, resets,
                   lastStored, lastEmitEpoch, startEpoch>>
    /\ UNCHANGED geometry

\* lines 68-71 and 84-87, after loopWarn has returned: with ENABLE_LOOP_BREAK
\* the break line and the break; then the code after the macro
MacroBreak(t) ==
    /\ pc[t] = "brk"
    /\ IF ENABLE_LOOP_BREAK
       THEN sink' = Append(sink, Line("BREAK", t, 0, 0))
       ELSE sink' = sink
    /\ LET after == AfterMacro(MacroExit(op[t], TRUE, ENABLE_LOOP_BREAK), n[t], iter[t])
       IN /\ pc' = [pc EXCEPT ![t] = after.pc]
          /\ iter' = [iter EXCEPT ![t] = after.iter]
    /\ UNCHANGED <<LOOP_WARN_THRESHOLD, WARN_ONCE_PER_PROCESS, config, warnMutex,
                   op, n, cnt, loopSize, thr, newThreshold, calls, history>>
    /\ UNCHANGED geometry

\* setLoopWarnThreshold, line 96: the store
SetStore(t, v) ==
    /\ pc[t] = "idle"
    /\ calls < MaxCalls
    /\ calls' = calls + 1
    /\ newThreshold' = [newThreshold EXCEPT ![t] = v]
    /\ LOOP_WARN_THRESHOLD' = v
    /\ lastStored' = <<v>>
    /\ pc' = [pc EXCEPT ![t] = "set_print"]
    /\ UNCHANGED <<WARN_ONCE_PER_PROCESS, config, warnMutex, sink, op, n, iter,
                   cnt, loopSize, thr, resets, lastEmitEpoch, startEpoch,
                   overlapEpoch, doneSinceArm>>
    /\ UNCHANGED <<unlockedFlagWrites, geometry>>

\* setLoopWarnThreshold, line 97: the "[LOOP_CONFIG]" line, and the return
SetPrint(t) ==
    /\ pc[t] = "set_print"
    /\ sink' = Append(sink, Line("CONFIG", t, newThreshold[t], 0))
    /\ newThreshold' = [newThreshold EXCEPT ![t] = 0]
    /\ pc' = [pc EXCEPT ![t] = "idle"]
    /\ UNCHANGED <<LOOP_WARN_THRESHOLD, WARN_ONCE_PER_PROCESS, config, warnMutex,
                   op, n, iter, cnt, loopSize, thr, calls, history>>
    /\ UNCHANGED geometry

\* resetLoopWarnFlag, line 105: one atomic store, no mutex
ResetLoopWarnFlag(t) ==
    /\ pc[t] = "idle"
    /\ calls < MaxCalls
    /\ calls' = calls + 1
    /\ WARN_ONCE_PER_PROCESS' = TRUE
    /\ unlockedFlagWrites' = unlockedFlagWrites + UnlockedWrite(t)
    /\ resets' = resets + 1
    /\ doneSinceArm' = 0
    /\ UNCHANGED <<LOOP_WARN_THRESHOLD, config, warnMutex, sink, pc, locals,
                   lastStored, lastEmitEpoch, startEpoch, overlapEpoch>>
    /\ UNCHANGED geometry

\* the guarded loop is over: its locals go out of scope
Return(t) ==
    /\ pc[t] = "ret"
    /\ pc' = [pc EXCEPT ![t] = "idle"]
    /\ op' = [op EXCEPT ![t] = "none"]
    /\ n' = [n EXCEPT ![t] = 0]
    /\ iter' = [iter EXCEPT ![t] = 0]
    /\ cnt' = [cnt EXCEPT ![t] = 0]
    /\ loopSize' = [loopSize EXCEPT ![t] = 0]
    /\ thr' = [thr EXCEPT ![t] = 0]
    /\ startEpoch' = [startEpoch EXCEPT ![t] = 0]
    /\ overlapEpoch' = [overlapEpoch EXCEPT ![t] = <<>>]
    /\ UNCHANGED <<LOOP_WARN_THRESHOLD, WARN_ONCE_PER_PROCESS, config, warnMutex,
                   sink, newThreshold, calls, resets, lastStored, lastEmitEpoch,
                   doneSinceArm>>
    /\ UNCHANGED <<unlockedFlagWrites, geometry>>

Next ==
    \E t \in Threads :
        \/ \E N \in 0..(MaxThreshold + 1) : SizeCheck(t, N)
        \/ \E K \in 1..MaxN : CountStart(t, K)
        \/ CountCheck(t)
        \/ LoopWarnEnter(t)
        \/ LoopWarnCount(t)
        \/ \E outcome \in StackOutcomes : PrintLoopStackTrace(t, outcome)
        \/ LoopWarnClear(t)
        \/ MacroBreak(t)
        \/ \E v \in 0..MaxThreshold : SetStore(t, v)
        \/ SetPrint(t)
        \/ ResetLoopWarnFlag(t)
        \/ Return(t)

Spec == Init /\ [][Next]_vars

\* ------------------------------------------------------------ observers
\* the lines loopWarn writes
LoopWarnKinds == {"WARN", "NAME", "COUNT", "STACK"}
\* emissions begun: header lines in the sink
AlertsStarted == Cardinality({i \in DOMAIN sink : Kind(sink[i]) = "WARN"})
\* threads between the flag test and the flag clear
Emitting == {t \in Threads : pc[t] \in EmitPcs}
\* emissions that ran to the flag clear
AlertsCompleted == AlertsStarted - Cardinality(Emitting)
\* the count/threshold lines written so far
CountLines == {i \in DOMAIN sink : Kind(sink[i]) = "COUNT"}
\* thread t has come back from loopWarn, called by an overflowing pre-loop check
SizeCheckWarned(t) ==
    op[t] = "size" /\ pc[t] \in {"brk", "ret"} /\ loopSize[t] > thr[t]

\* ------------------------------------------------------------------ C1
\* C1: from the armed flag and with no resetLoopWarnFlag call, overflowing
\* CHECK_LOOP_DYNAMIC_SIZE calls of any number of threads emit exactly one
\* alert: never a second one, and one is complete as soon as any of the
\* calls has come back from loopWarn.
C1_ExactlyOneAlert ==
    resets = 0 =>
        /\ AlertsStarted <= 1
        /\ \A t \in Threads : SizeCheckWarned(t) => AlertsCompleted = 1

\* two threads have both run an overflowing pre-loop check to its end
C1_Witness ==
    /\ resets = 0
    /\ AlertsCompleted = 1
    /\ \E t, u \in Threads : t # u /\ SizeCheckWarned(t) /\ SizeCheckWarned(u)

\* ------------------------------------------------------------------ C2
\* C2: at most one emission completes between one arming of the flag (the
\* start or a reset) and the next reset; the emissions never exceed one more
\* than the resetLoopWarnFlag calls performed.
C2_OnePerArming ==
    /\ doneSinceArm <= 1
    /\ AlertsStarted <= 1 + resets

\* a second emission has completed, after a reset
C2_Witness ==
    /\ resets = 1
    /\ AlertsCompleted = 2
    /\ doneSinceArm = 1

\* ------------------------------------------------------------------ C3
\* C3: with ENABLE_LOOP_BREAK true, the loop that follows a
\* CHECK_LOOP_DYNAMIC_SIZE whose bound is above the threshold executes zero
\* times.
C3_LoopSkipped ==
    \A t \in Threads :
        (ENABLE_LOOP_BREAK /\ op[t] = "size" /\ loopSize[t] > thr[t]) => iter[t] = 0

\* ------------------------------------------------------------------ C4
\* C4: a single-threaded counted loop, threshold T fixed, ENABLE_LOOP_BREAK
\* false, flag armed: one alert, written in the iteration whose count is T+1
\* and reporting T+1; none before, none after.
C4_AlertAtThresholdPlusOne ==
    \A t \in Threads :
        (op[t] = "count" /\ calls = 1 /\ ~ENABLE_LOOP_BREAK) =>
            LET T == LOOP_WARN_THRESHOLD IN
            /\ AlertsStarted <= 1
            /\ \A i \in CountLines : sink[i] = Line("COUNT", t, T + 1, T)
            /\ AlertsStarted = 1 => cnt[t] >= T + 1
            /\ t \in Emitting => cnt[t] = T + 1
            /\ (cnt[t] > T + 1 \/ (cnt[t] = T + 1 /\ pc[t] \in {"brk", "count_loop", "ret"}))
                    => (AlertsCompleted = 1 /\ CountLines # {})

\* the loop has run past the alerting iteration
C4_Witness ==
    \E t \in Threads :
        /\ op[t] = "count" /\ calls = 1 /\ ~ENABLE_LOOP_BREAK
        /\ cnt[t] > LOOP_WARN_THRESHOLD + 1
        /\ pc[t] = "ret"
        /\ AlertsCompleted = 1

\* ------------------------------------------------------------------ C5
\* C5: a CHECK_LOOP_DYNAMIC_SIZE whose bound is at most the threshold it
\* read (the threshold itself included) does not call loopWarn, writes
\* nothing to the sink and leaves the flag, the threshold and the mutex alone.
C5_NoOverflowNoEffect ==
    [][\A t \in Threads :
        (pc[t] = "idle" /\ op'[t] = "size" /\ n'[t] <= thr'[t]) =>
            /\ pc'[t] = "ret"
            /\ sink' = sink
            /\ WARN_ONCE_PER_PROCESS' = WARN_ONCE_PER_PROCESS
            /\ LOOP_WARN_THRESHOLD' = LOOP_WARN_THRESHOLD
            /\ warnMutex' = warnMutex]_vars

\* a check with a bound equal to a non-zero threshold has run, nothing written
C5_Witness ==
    \E t \in Threads :
        /\ op[t] = "size" /\ pc[t] = "ret"
        /\ n[t] = thr[t] /\ n[t] > 0
        /\ sink = <<>>
        /\ WARN_ONCE_PER_PROCESS

\* ------------------------------------------------------------------ C6
\* C6: an overflowing check that started after resetLoopWarnFlag number k
\* had returned finds, once it is back from loopWarn, that a new alert has
\* been emitted: some emission (its own or another thread's) began after
\* that reset.
C6_AlertAfterReset ==
    \A t \in Threads :
        (pc[t] = "brk" /\ startEpoch[t] >= 1) => lastEmitEpoch >= startEpoch[t]

\* ------------------------------------------------------------------ C7
\* a setLoopWarnThreshold call has stored and not yet returned
SetInFlight == \E u \in Threads : pc[u] = "set_print"
\* thread t takes the step in which a check loads and compares
IsCheckStep(t) ==
    \/ pc[t] = "idle" /\ op'[t] = "size"
    \/ pc[t] = "count_loop" /\ cnt'[t] = cnt[t] + 1

\* C7: once setLoopWarnThreshold(v) has returned and no later call of it is
\* under way, every check a thread starts compares against v, also the next
\* per-iteration check of a counted loop already running.
C7_ChecksSeeStoredThreshold ==
    [][\A t \in Threads :
        (IsCheckStep(t) /\ lastStored # <<>> /\ ~SetInFlight) =>
            thr'[t] = lastStored[1]]_vars

\* a counted loop whose first iteration passed alerts in its second, against
\* a threshold lowered to 0 in between by a call that has returned
C7_Witness ==
    \E t \in Threads :
        /\ op[t] = "count" /\ pc[t] = "lw_enter"
        /\ iter[t] = 1 /\ cnt[t] = 2
        /\ lastStored = <<0>> /\ thr[t] = 0
        /\ ~SetInFlight
        /\ \E i \in DOMAIN sink : Kind(sink[i]) = "CONFIG"

\* ------------------------------------------------------------------ C8
\* C8: with ENABLE_LOOP_BREAK true and the threshold fixed at T, a loop that
\* runs LOOP_DYNAMIC_COUNT_CHECK in each iteration stops at the iteration
\* whose count first exceeds T: its counter never exceeds T+1.
C8_CountedLoopStops ==
    \A t \in Threads :
        (ENABLE_LOOP_BREAK /\ op[t] = "count" /\ lastStored = <<>>) =>
            cnt[t] <= LOOP_WARN_THRESHOLD + 1

\* ------------------------------------------------------------------ C9
\* C9: with ENABLE_LOOP_BREAK false neither check changes the guarded loop's
\* control flow: the loop after a pre-loop check, and a counted loop, run
\* exactly the iterations they ask for, overflow or not.
C9_FullIterationCount ==
    \A t \in Threads :
        ~ENABLE_LOOP_BREAK =>
            /\ pc[t] = "ret" => iter[t] = n[t]
            /\ (pc[t] = "ret" /\ op[t] = "count") => cnt[t] = n[t]
            /\ pc[t] = "count_loop" => iter[t] < n[t]

\* a pre-loop check and a counted loop have both overflowed and run in full
C9_Witness ==
    /\ ~ENABLE_LOOP_BREAK
    /\ \E t, u \in Threads :
        /\ op[t] = "size" /\ pc[t] = "ret" /\ loopSize[t] > thr[t] /\ iter[t] = n[t]
        /\ op[u] = "count" /\ pc[u] = "ret" /\ loopSize[u] > 0 /\ iter[u] = n[u]
        /\ n[u] > 1

\* ----------------------------------------------------------------- C10
\* the latest loopWarn line before position j of the sink (0: none)
PrevLoopWarnLine(j) ==
    LET before == {i \in 1..(j - 1) : Kind(sink[i]) \in LoopWarnKinds}
    IN IF before = {} THEN 0 ELSE CHOOSE i \in before : \A k \in before : k <= i
\* emission is one critical section: one emitter at most, it holds the
\* mutex, and each line of an emission follows a line of the same emission
CriticalSection ==
    /\ Cardinality(Emitting) <= 1
    /\ \A t \in Emitting : warnMutex = t
    /\ \A j \in DOMAIN sink :
        Kind(sink[j]) \in LoopWarnKinds \ {"WARN"} =>
            /\ PrevLoopWarnLine(j) # 0
            /\ By(sink[PrevLoopWarnLine(j)]) = By(sink[j])

\* C10 as stated: emission is one critical section, and every caller that
\* waited in loopWarn during an emission finds the flag false and skips.
C10_WaitersAlwaysSkip ==
    /\ CriticalSection
    /\ \A t \in Threads : overlapEpoch[t] # <<>> => t \notin Emitting

\* C10 amended: emission is one critical section, and a caller that waited in
\* loopWarn during an emission skips unless resetLoopWarnFlag has run after
\* that emission cleared the flag.
C10_WaitersSkipUnlessReset ==
    /\ CriticalSection
    /\ \A t \in Threads :
        (overlapEpoch[t] # <<>> /\ t \in Emitting) => resets > overlapEpoch[t][1]

\* a caller that waited during another thread's emission has skipped
C10_Witness ==
    \E t \in Threads :
        /\ overlapEpoch[t] # <<>>
        /\ pc[t] = "brk"
        /\ lastEmitEpoch = resets
        /\ \E i \in DOMAIN sink : Kind(sink[i]) = "WARN" /\ By(sink[i]) # t
        /\ \A i \in DOMAIN sink : By(sink[i]) # t

\* ----------------------------------------------------------------- C11
\* the count a check hands to loopWarn: N, or the counter just incremented
ObservedCount(t) == IF op[t] = "size" THEN n[t] ELSE cnt[t]
\* thread t takes a step of its own
Steps(t) == pc'[t] # pc[t]

\* C11: with ENABLE_STACK_TRACE false, an overflowing check that finds the
\* flag armed writes the alert (header, loop name, then the observed count
\* with the threshold, which is the compared one when no store has happened),
\* writes nothing for the stack (no capture is attempted), and then clears
\* the flag.
C11_AlertWithoutStack ==
    [][\A t \in Threads : (~ENABLE_STACK_TRACE /\ Steps(t)) =>
        /\ (pc[t] = "lw_enter" /\ WARN_ONCE_PER_PROCESS) =>
                /\ pc'[t] = "lw_count"
                /\ sink' = sink \o <<Line("WARN", t, 0, 0), Line("NAME", t, 0, 0)>>
        /\ pc[t] = "lw_count" =>
                /\ pc'[t] = "lw_stack"
                /\ sink' = Append(sink,
                        Line("COUNT", t, ObservedCount(t), LOOP_WARN_THRESHOLD))
                /\ ObservedCount(t) = loopSize[t]
                /\ lastStored = <<>> => LOOP_WARN_THRESHOLD = thr[t]
        /\ pc[t] = "lw_stack" => (pc'[t] = "lw_clear" /\ sink' = sink)
        /\ pc[t] = "lw_clear" => (pc'[t] = "brk" /\ ~WARN_ONCE_PER_PROCESS')
    ]_vars

\* an alert without a stack section is complete and the flag is cleared
C11_Witness ==
    /\ ~ENABLE_STACK_TRACE
    /\ ~WARN_ONCE_PER_PROCESS
    /\ \E t \in Threads :
        /\ pc[t] = "brk"
        /\ \E i \in DOMAIN sink :
                sink[i] = Line("COUNT", t, loopSize[t], thr[t])
    /\ \A i \in DOMAIN sink : Kind(sink[i]) # "STACK"

\* ----------------------------------------------------------------- C12
\* main.cpp's geometry.  A double is modelled by the rational it stands for,
\* <<numerator, denominator>> in lowest terms with a positive denominator;
\* the four operations are exact (no rounding, no overflow, no NaN).
Abs(i) == IF i < 0 THEN -i ELSE i

RECURSIVE GCD(_, _)
GCD(a, b) == IF b = 0 THEN a ELSE GCD(b, a % b)

\* the rational num/den, den # 0, in lowest terms
Rat(num, den) ==
    LET g == GCD(Abs(num), Abs(den))
        sgn == IF den < 0 THEN -1 ELSE 1
    IN <<(sgn * num) \div g, (sgn * den) \div g>>

RatAdd(x, y) == Rat(x[1] * y[2] + y[1] * x[2], x[2] * y[2])
RatSub(x, y) == Rat(x[1] * y[2] - y[1] * x[2], x[2] * y[2])
RatMul(x, y) == Rat(x[1] * y[1], x[2] * y[2])
RatDiv(x, y) == Rat(x[1] * y[2], x[2] * y[1])

L_ORIGINAL == Rat(103, 1)
D_ORIGINAL == Rat(68, 1)
CENTER_X_ORIGINAL == Rat(63, 1)
\* a vertical centre offset equal to the horizontal one
CenterYSameAsCenterX == Rat(63, 1)
\* 62.5
CENTER_Y_ORIGINAL == Rat(125, 2)

\* lines 41-60, statement by statement
CalculateImageTransform(D, x, y) ==
    LET scaleFactor == RatDiv(D, D_ORIGINAL)
        center_x_scaled == RatMul(CENTER_X_ORIGINAL, scaleFactor)
        center_y_scaled == RatMul(CENTER_Y_ORIGINAL, scaleFactor)
        scaledLength == RatMul(L_ORIGINAL, scaleFactor)
        imageDrawX == RatSub(x, center_x_scaled)
        imageDrawY == RatSub(y, center_y_scaled)
    IN [scaleFactor |-> scaleFactor,
        scaledLength |-> scaledLength,
        imageDrawX |-> imageDrawX,
        imageDrawY |-> imageDrawY,
        imageDrawEndX |-> RatAdd(imageDrawX, scaledLength),
        imageDrawEndY |-> RatAdd(imageDrawY, scaledLength)]

\* GetStrokeWidth(), GetStartPointX(), GetStartPointY(): what main passes
GetStrokeWidth == Rat(20, 1)
GetStartPointX == Rat(190, 1)
GetStartPointY == Rat(290, 1)

\* the diameters and centre coordinates the function is applied to: main's,
\* zero, a fraction, a negative value, the original's own measure
DiameterInputs == {GetStrokeWidth, Rat(0, 1), Rat(1, 2), Rat(68, 1), Rat(-4, 1)}
CenterXInputs == {GetStartPointX, Rat(0, 1), Rat(63, 1), Rat(-7, 2)}
CenterYInputs == {GetStartPointY, Rat(0, 1), Rat(125, 2), Rat(-1, 1)}

\* the transform program before its call: the inputs chosen, no result yet;
\* the loop guard is not part of this program and rests at its defaults
InitTransform ==
    /\ D_target \in DiameterInputs
    /\ start_draw_x \in CenterXInputs
    /\ start_draw_y \in CenterYInputs
    /\ results = <<>>
    /\ LOOP_WARN_THRESHOLD = MaxThreshold
    /\ WARN_ONCE_PER_PROCESS = TRUE
    /\ ENABLE_STACK_TRACE = TRUE
    /\ ENABLE_LOOP_BREAK = FALSE
    /\ warnMutex = NoThread
    /\ sink = <<>>
    /\ pc = [t \in Threads |-> "idle"]
    /\ op = [t \in Threads |-> "none"]
    /\ n = [t \in Threads |-> 0]
    /\ iter = [t \in Threads |-> 0]
    /\ cnt = [t \in Threads |-> 0]
    /\ loopSize = [t \in Threads |-> 0]
    /\ thr = [t \in Threads |-> 0]
    /\ newThreshold = [t \in Threads |-> 0]
    /\ calls = 0
    /\ resets = 0
    /\ lastStored = <<>>
    /\ lastEmitEpoch = 0
    /\ startEpoch = [t \in Threads |-> 0]
    /\ overlapEpoch = [t \in Threads |-> <<>>]
    /\ doneSinceArm = 0
    /\ unlockedFlagWrites = 0

\* main, line 121: the call
CallCalculateImageTransform ==
    /\ results = <<>>
    /\ results' = CalculateImageTransform(D_target, start_draw_x, start_draw_y)
    /\ UNCHANGED <<D_target, start_draw_x, start_draw_y, guard>>

NextTransform == CallCalculateImageTransform

SpecTransform == InitTransform /\ [][NextTransform]_vars

\* the rational v, rounded to two decimals, is hundredths/100
RoundsTo(v, hundredths) == Abs(200 * v[1] - 2 * hundredths * v[2]) <= v[2]

\* C12: whatever the inputs, the result returned has scaleFactor =
\* targetDiameter / 68, scaledLength = 103 * scaleFactor, drawX = centerX -
\* 63 * scaleFactor, drawY = centerY - 62.5 * scaleFactor, drawEndX = drawX +
\* scaledLength and drawEndY = drawY + scaledLength; for (20, 190, 290) the
\* scale factor is 20/68 and scaledLength, drawX, drawY round to 30.29,
\* 171.47 and 271.62.
C12_TransformFormulas ==
    results # <<>> =>
        /\ results.scaleFactor = RatDiv(D_target, Rat(68, 1))
        /\ results.scaledLength = RatMul(Rat(103, 1), results.scaleFactor)
        /\ results.imageDrawX =
                RatSub(start_draw_x, RatMul(Rat(63, 1), results.scaleFactor))
        /\ results.imageDrawY =
                RatSub(start_draw_y, RatMul(Rat(125, 2), results.scaleFactor))
        /\ results.imageDrawEndX = RatAdd(results.imageDrawX, results.scaledLength)
        /\ results.imageDrawEndY = RatAdd(results.imageDrawY, results.scaledLength)
        /\ (D_target = Rat(20, 1) /\ start_draw_x = Rat(190, 1)
                /\ start_draw_y = Rat(290, 1)) =>
                /\ results.scaleFactor = Rat(20, 68)
                /\ RoundsTo(results.scaledLength, 3029)
                /\ RoundsTo(results.imageDrawX, 17147)
                /\ RoundsTo(results.imageDrawY, 27162)

\* main's call has returned
C12_Witness ==
    /\ results # <<>>
    /\ D_target = GetStrokeWidth
    /\ start_draw_x = GetStartPointX
    /\ start_draw_y = GetStartPointY
    /\ results.scaleFactor[1] # 0

\* ----------------------------------------------------------------- C13
\* C13: every write to the flag, the clear of line 54 and the re-arm of
\* resetLoopWarnFlag alike, is made by a thread that holds warnMutex.
C13_FlagWritesUnderMutex == unlockedFlagWrites = 0

\* ----------------------------------------------------------------- C14
\* C14: a loopWarn call that finds the flag false returns having written
\* nothing to the sink and captured no stack, the flag, the threshold and the
\* mutex as they were; a counted loop that runs on past the threshold loads
\* and compares again in every iteration, and calls loopWarn on overflow.
C14_DisarmedCallIsSilent ==
    [][\A t \in Threads : Steps(t) =>
        /\ (pc[t] = "lw_enter" /\ ~WARN_ONCE_PER_PROCESS) =>
                /\ pc'[t] = "brk"
                /\ sink' = sink
                /\ WARN_ONCE_PER_PROCESS' = WARN_ONCE_PER_PROCESS
                /\ LOOP_WARN_THRESHOLD' = LOOP_WARN_THRESHOLD
                /\ warnMutex' = warnMutex
        /\ pc[t] = "count_loop" =>
                /\ cnt'[t] = cnt[t] + 1
                /\ thr'[t] = LOOP_WARN_THRESHOLD
                /\ pc'[t] = "lw_enter" <=> cnt'[t] > LOOP_WARN_THRESHOLD
                /\ sink' = sink
    ]_vars

\* a counted loop alerted in an earlier iteration, and a later iteration's
\* loopWarn call has come back silent
C14_Witness ==
    \E t \in Threads :
        /\ op[t] = "count" /\ pc[t] = "brk"
        /\ loopSize[t] = cnt[t] /\ cnt[t] > thr[t]
        /\ ~WARN_ONCE_PER_PROCESS /\ resets = 0
        /\ AlertsStarted = 1
        /\ \E i \in CountLines : By(sink[i]) = t /\ sink[i][3] < cnt[t]

\* ----------------------------------------------------------------- C15
\* C15: whatever the stack capture of an emission gives back (no symbol
\* array, so nothing is written; zero frames; some frames), the alert's
\* header, name and count lines are already in the sink, loopWarn goes on to
\* clear the flag and release the mutex, and the macro then continues from
\* the same place, fixed by the loop alone.
C15_CaptureFailureIsHarmless ==
    [][\A t \in Threads : Steps(t) =>
        /\ pc[t] = "lw_stack" =>
                /\ pc'[t] = "lw_clear"
                /\ \E i, j, k \in DOMAIN sink :
                        /\ i < j /\ j < k
                        /\ sink[i] = Line("WARN", t, 0, 0)
                        /\ sink[j] = Line("NAME", t, 0, 0)
                        /\ Kind(sink[k]) = "COUNT" /\ By(sink[k]) = t
                        /\ sink[k][3] = loopSize[t]
                /\ \/ sink' = sink
                   \/ \E frames \in 0..1 : sink' = Append(sink, Line("STACK", t, frames, 0))
        /\ pc[t] = "lw_clear" =>
                /\ pc'[t] = "brk"
                /\ ~WARN_ONCE_PER_PROCESS'
                /\ warnMutex = t /\ warnMutex' = NoThread
        /\ pc[t] = "brk" =>
                pc'[t] = IF op[t] = "count" /\ iter[t] + 1 < n[t]
                         THEN "count_loop" ELSE "ret"
    ]_vars

\* with stack traces enabled an alert ended at its count line (the capture
\* gave no symbols), the flag is cleared, the mutex free, the loop has run on
C15_Witness ==
    /\ ENABLE_STACK_TRACE /\ ~ENABLE_LOOP_BREAK
    /\ ~WARN_ONCE_PER_PROCESS /\ warnMutex = NoThread
    /\ \E t \in Threads :
        /\ pc[t] = "ret" /\ iter[t] = n[t] /\ n[t] > 0
        /\ Len(sink) = 3
        /\ sink[3] = Line("COUNT", t, loopSize[t], thr[t])

\* ----------------------------------------------------------------- C16
\* the steps a thread takes once inside a call (starting a call is the
\* caller's choice, finishing it is not)
Progress(t) ==
    \/ CountCheck(t)
    \/ LoopWarnEnter(t)
    \/ LoopWarnCount(t)
    \/ \E outcome \in StackOutcomes : PrintLoopStackTrace(t, outcome)
    \/ LoopWarnClear(t)
    \/ MacroBreak(t)
    \/ SetPrint(t)
    \/ Return(t)

\* Fair scheduling: a thread that stays able to take a step of its call
\* eventually takes one.
Fairness == \A t \in Threads : WF_vars(Progress(t))

FairSpec == Spec /\ Fairness

C17_CountAbovePrintedThreshold ==
    \A i \in CountLines : sink[i][3] > sink[i][4]

\* C17: every count line is written with the count its check observed, which
\* is strictly greater than the threshold that check's comparison loaded; the
\* threshold printed beside it is loaded anew when the line is written, and
\* differs from the compared one only by being the value of a later
\* setLoopWarnThreshold store.
C17_CountAboveComparedThreshold ==
    [][\A t \in Threads : (Steps(t) /\ pc[t] = "lw_count") =>
        \E printed \in 0..MaxThreshold :
            /\ sink' = Append(sink, Line("COUNT", t, loopSize[t], printed))
            /\ loopSize[t] = ObservedCount(t)
            /\ loopSize[t] > thr[t]
            /\ \/ printed = thr[t]
               \/ lastStored = <<printed>>
    ]_vars

\* an alert whose printed threshold is not below its count: the threshold
\* was raised between the comparison and the line
C17_Witness ==
    \E t \in Threads : \E i \in CountLines :
        /\ pc[t] = "lw_stack"
        /\ sink[i] = Line("COUNT", t, loopSize[t], LOOP_WARN_THRESHOLD)
        /\ loopSize[t] > thr[t]
        /\ sink[i][4] >= sink[i][3]

\* ----------------------------------------------------------------- C18
\* the alert that begins with the header at index i ends at index k: both
\* lines are loopWarn's, by the same thread, with no header of it in between
SameAlert(i, k) ==
    /\ i < k
    /\ Kind(sink[i]) = "WARN"
    /\ Kind(sink[k]) \in LoopWarnKinds
    /\ By(sink[k]) = By(sink[i])
    /\ \A j \in (i + 1)..k : ~(Kind(sink[j]) = "WARN" /\ By(sink[j]) = By(sink[i]))

\* C18 as stated: the lines of one alert are contiguous in the sink, no line
\* of another thread lies between two of them.
C18_AlertLinesContiguous ==
    \A i, k \in DOMAIN sink : SameAlert(i, k) =>
        \A j \in i..k : By(sink[j]) = By(sink[i])

\* C18: no line of another alert lies between the lines of one alert; what
\* other threads can put between them are the lines written outside
\* loopWarn, the threshold line of setLoopWarnThreshold and the loop-break
\* line of a check.
C18_AlertsNotInterleaved ==
    \A i, k \in DOMAIN sink : SameAlert(i, k) =>
        \A j \in i..k :
            \/ By(sink[j]) = By(sink[i])
            \/ Kind(sink[j]) \in {"CONFIG", "BREAK"}

\* an alert with another thread's loop-break line between its header and its
\* count line
C18_BreakLineInside ==
    \E i, k \in DOMAIN sink :
        /\ SameAlert(i, k)
        /\ Kind(sink[k]) = "COUNT"
        /\ \E j \in i..k : By(sink[j]) # By(sink[i]) /\ Kind(sink[j]) = "BREAK"

\* a complete alert with another thread's threshold line between its count
\* line and its stack section
C18_Witness ==
    \E i, k \in DOMAIN sink :
        /\ SameAlert(i, k)
        /\ Kind(sink[k]) = "STACK"
        /\ Kind(sink[k - 1]) = "CONFIG" /\ By(sink[k - 1]) # By(sink[i])
        /\ pc[By(sink[i])] = "ret"

\* ----------------------------------------------------------------- C19
\* the process started with WARN_ONCE_PER_PROCESS configured false (line 16
\* edited, or the flag assigned before any thread runs)
InitWarnOnceOff ==
    /\ LOOP_WARN_THRESHOLD \in 0..MaxThreshold
    /\ WARN_ONCE_PER_PROCESS = FALSE
    /\ ENABLE_STACK_TRACE \in BOOLEAN
    /\ ENABLE_LOOP_BREAK \in BOOLEAN
    /\ warnMutex = NoThread
    /\ sink = <<>>
    /\ pc = [t \in Threads |-> "idle"]
    /\ op = [t \in Threads |-> "none"]
    /\ n = [t \in Threads |-> 0]
    /\ iter = [t \in Threads |-> 0]
    /\ cnt = [t \in Threads |-> 0]
    /\ loopSize = [t \in Threads |-> 0]
    /\ thr = [t \in Threads |-> 0]
    /\ newThreshold = [t \in Threads |-> 0]
    /\ calls = 0
    /\ resets = 0
    /\ lastStored = <<>>
    /\ lastEmitEpoch = 0
    /\ startEpoch = [t \in Threads |-> 0]
    /\ overlapEpoch = [t \in Threads |-> <<>>]
    /\ doneSinceArm = 0
    /\ unlockedFlagWrites = 0
    /\ D_target = <<0, 1>>
    /\ start_draw_x = <<0, 1>>
    /\ start_draw_y = <<0, 1>>
    /\ results = <<>>

SpecWarnOnceOff == InitWarnOnceOff /\ [][Next]_vars

\* C19: in a process configured with WARN_ONCE_PER_PROCESS false, every
\* overflowing check emits an alert: a thread back from the loopWarn call of
\* its check has its count line, with the count it observed, in the sink.
C19_EveryOverflowAlerts ==
    \A t \in Threads :
        pc[t] = "brk" =>
            \E i \in CountLines : By(sink[i]) = t /\ sink[i][3] = loopSize[t]

=============================================================================
